---- MODULE Spec2Model ----
(***************************************************************************)
(* A model of the skiba package: the coordinate obfuscation and circular   *)
(* buffer builders, the Earth Engine dataset loaders (declared-type and    *)
(* type-probing variants) and the extraction orchestrators.                *)
(*                                                                         *)
(* Lengths are integers in grid units of 1/36250 m, so that                *)
(*   - one foot, 0.3048 m, is exactly 11049 units, and                     *)
(*   - an offset distance*cos(angle), distance*sin(angle) is an integer    *)
(*     for every modelled angle (unit vectors with denominator 29) and     *)
(*     every modelled distance (a multiple of 29 units).                   *)
(* Geographic coordinates are integers too: 1000000 grid units per degree. *)
(* The pyproj transformers are modelled by an affine frame per EPSG code   *)
(* (origin on the frame's central meridian), exact in both directions.     *)
(***************************************************************************)
EXTENDS Integers, Sequences, FiniteSets, TLC

VARIABLES obf,     \* buffer.create_obfuscated_points          (buffer_and_sample.py)
          circ,    \* buffer_coordinates.create_obfuscated_circle (both variants)
          load,    \* load_gee_as_image, type-probing and declared-type variants
          ext,     \* get_coordinate_data / extract_median_values
          cat,     \* the catalog requests of the widgets, fetch_geojson
          tbl,     \* the column resolution of PointExtraction.on_button_clicked
          batch,   \* obfuscate_points_to_circles
          val,     \* the validators of common.py
          pts,     \* buffer.obfuscate_points
          fs,      \* the output files of the extractions, in the Downloads folder
          imap     \* interactive.Map: its layers and current_geojson_layer

vars == <<obf, circ, load, ext, cat, tbl, batch, val, pts, fs, imap>>

(***************************************************************************)
(* Bounds of the model.                                                    *)
(***************************************************************************)
MaxRadiusFeet == 2
MaxSamples == 2
MaxCircleRadiusFeet == 9
MaxGeometries == 3
MaxPixels == 2
MaxLookups == 3
MaxColumns == 4
MaxRows == 2
MaxSeparators == 2
MaxMapOps == 4

(***************************************************************************)
(* Python values.                                                          *)
(***************************************************************************)
None == "<None>"

\* str(v): str(None) is the four-letter string "None", a string is itself
str(v) == IF v = None THEN "None" ELSE v

\* truth value of a date argument in `if start_date and end_date`
Truthy(v) == v # None /\ v # ""

(***************************************************************************)
(* Geometry.                                                               *)
(***************************************************************************)
\* shapely Point(x, y): x is the longitude / easting, y the latitude / northing
Point(px, py) == [x |-> px, y |-> py]

\* whole degrees in grid units
Deg(d) == d * 1000000

\* radius_m = radius_feet * 0.3048, in units of 1/36250 m
radius_m(radius_feet) == radius_feet * 11049

\* int((point.x + 180) // 6) + 1
utm_zone(point) == ((point.x + Deg(180)) \div Deg(6)) + 1

\* f"EPSG:326{zone}": the digits of the zone are appended to "326", so a
\* one-digit zone gives a four-digit code (3261..3269) and zone 61 gives 32661
utm_crs(point) ==
    LET zone == utm_zone(point)
    IN  IF zone < 10 THEN 3260 + zone ELSE 32600 + zone

\* The central meridian (degrees) of the frame an EPSG code names: the UTM
\* north zones 32601..32660 are centred on 6*zone - 183; every other code the
\* string can name (3261..3269, 32661) is a frame that is not a UTM zone and
\* is centred on the Greenwich meridian.
central_meridian(code) ==
    IF code >= 32601 /\ code <= 32660 THEN 6 * (code - 32600) - 183 ELSE 0

\* Transformer.from_crs(crs, utm_crs, always_xy=True).transform
transformer_to_utm(code, p) == Point(p.x - Deg(central_meridian(code)), p.y)

\* Transformer.from_crs(utm_crs, crs, always_xy=True).transform
transformer_to_latlon(code, p) == Point(p.x + Deg(central_meridian(code)), p.y)

\* The sampled values of np.random.uniform(0, 2*np.pi): angles whose cosine
\* and sine are rational with denominator 29, as <<29*cos, 29*sin>>.
Angles ==
    { <<29, 0>>, <<0, 29>>, <<0 - 29, 0>>, <<0, 0 - 29>>,
      <<21, 20>>, <<0 - 20, 21>>, <<0 - 21, 0 - 20>>, <<20, 0 - 21>> }

\* The sampled values of np.random.uniform(0, high) = 0 + (high - 0) * u,
\* u in [0, 1), a half-open interval: the low end, one step (29 units, 0.8 mm)
\* from the low end, the middle, and one step from the high end.  Every value
\* is a multiple of 29 units; high < 0 gives values in (high, 0].
uniform(high) ==
    IF high = 0 THEN {0}
    ELSE LET s == IF high > 0 THEN 29 ELSE 0 - 29
             n == high \div s
         IN  {0, s, s * (n \div 2), high - s}

\* the offset without the trigonometric factors
offset_center_no_trig(p, angle, distance) == Point(p.x - distance, p.y - distance)

\* x - distance * np.cos(angle), y - distance * np.sin(angle)
offset_center(p, angle, distance) ==
    Point(p.x - (distance \div 29) * angle[1], p.y - (distance \div 29) * angle[2])

\* squared distance of two points of one projected frame
dist2(a, b) == (a.x - b.x) * (a.x - b.x) + (a.y - b.y) * (a.y - b.y)

\* Input coordinates (WGS84, whole degrees): a zone with two digits, a zone
\* with one digit in the southern hemisphere, a zone east of Greenwich, and
\* the antimeridian.
InputPoints ==
    { Point(Deg(0 - 122), Deg(44)), Point(Deg(0 - 177), Deg(0 - 17)),
      Point(Deg(3), Deg(51)), Point(Deg(180), Deg(0)) }

RadiusInputs == (0 - 1) .. MaxRadiusFeet
SampleInputs == (0 - 1) .. MaxSamples

\* Execution is single-threaded and synchronous: a call starts only when no
\* other call is under way.
NoCallRunning ==
    /\ obf.pc = "idle" /\ circ.pc = "idle" /\ load.pc = "idle" /\ ext.pc = "idle"
    /\ tbl.pc = "idle" /\ batch.pc = "idle" /\ pts.pc = "idle"

(***************************************************************************)
(* buffer.create_obfuscated_points(point, radius_feet, no_samp)            *)
(***************************************************************************)
ObfIdle == [pc |-> "idle", point |-> Point(0, 0), radius_feet |-> 0, no_samp |-> 0,
            utm |-> 0, xy |-> Point(0, 0), no |-> 0,
            draws |-> << >>, centers |-> << >>, points |-> << >>,
            result |-> "none"]

\* lines 171-180: the conversion, the projection and the empty list
create_obfuscated_points_begin(point, radius_feet, no_samp) ==
    [ObfIdle EXCEPT !.pc = "loop", !.point = point, !.radius_feet = radius_feet,
                    !.no_samp = no_samp, !.utm = utm_crs(point),
                    !.xy = transformer_to_utm(utm_crs(point), point)]

\* lines 183-192: one iteration of `for no in range(no_samp)`
create_obfuscated_points_draw(o, angle, distance) ==
    LET center == offset_center(o.xy, angle, distance)
        center_latlon == transformer_to_latlon(o.utm, center)
    IN  [o EXCEPT !.no = o.no + 1,
                  !.draws = Append(o.draws, [angle |-> angle, distance |-> distance]),
                  !.centers = Append(o.centers, center),
                  !.points = Append(o.points, center_latlon)]

\* range(no_samp) without its last element
loop_continues_short(o) == o.no < o.no_samp - 1

\* line 181: `for no in range(no_samp)` has another element
loop_continues(o) == o.no < o.no_samp

ObfStart ==
    /\ NoCallRunning
    /\ \E point \in InputPoints, radius_feet \in RadiusInputs, no_samp \in SampleInputs :
          obf' = create_obfuscated_points_begin(point, radius_feet, no_samp)
    /\ UNCHANGED <<circ, load, ext, cat, tbl, batch, val, pts, fs, imap>>

ObfDraw ==
    /\ obf.pc = "loop"
    /\ loop_continues(obf)
    /\ \E angle \in Angles, distance \in uniform(radius_m(obf.radius_feet)) :
          obf' = create_obfuscated_points_draw(obf, angle, distance)
    /\ UNCHANGED <<circ, load, ext, cat, tbl, batch, val, pts, fs, imap>>

\* line 193: return points (no parameter is checked anywhere before it)
ObfReturn ==
    /\ obf.pc = "loop"
    /\ ~loop_continues(obf)
    /\ obf' = [obf EXCEPT !.pc = "done", !.result = "returned"]
    /\ UNCHANGED <<circ, load, ext, cat, tbl, batch, val, pts, fs, imap>>

(***************************************************************************)
(* buffer_coordinates.create_obfuscated_circle(point, radius_feet)         *)
(*   buffer_coordinates.py: the center is drawn at random around the point *)
(*   geojson_buffering.py:  the center is the point                        *)
(***************************************************************************)
\* center.buffer(radius_m, resolution=32): segments per quarter circle
resolution == 32

\* center.buffer(radius, resolution): the polygon whose 4 * resolution
\* vertices lie on the circle of that radius around the center, the first at
\* angle 0.  A radius <= 0 gives the empty polygon.
buffer(center, radius, quad_segs) ==
    [center |-> center, radius |-> radius, quad_segs |-> quad_segs]

\* Whether the polygon of buffer(center, radius, 32) has the projected point q
\* in its interior.  q - center is k * angle for an angle of Angles, its
\* length 29 * k.  The axis angles point at a vertex (every quarter turn is a
\* vertex): q is inside up to the radius.  The 20-21-29 angles are
\* 15.503, 47.503, 79.503 and 111.503 segments from angle 0, the middle of an
\* edge, where the polygon reaches radius * cos(pi / 128) / cos(0.0032 * pi / 64)
\* = radius * 0.99969883; 9997 / 10000 bounds that from above.
polygon_contains(poly, q) ==
    IF poly.radius <= 0 THEN FALSE
    ELSE IF q = poly.center THEN TRUE
    ELSE LET dx == q.x - poly.center.x
             dy == q.y - poly.center.y
             angle == CHOOSE a \in Angles :
                         /\ dx * a[2] = dy * a[1]
                         /\ dx * a[1] >= 0 /\ dy * a[2] >= 0
             k == IF angle[1] # 0 THEN dx \div angle[1] ELSE dy \div angle[2]
             d == 29 * k
         IN  IF angle[1] = 0 \/ angle[2] = 0
             THEN d < poly.radius
             ELSE d * 10000 < poly.radius * 9997

\* shapely.ops.transform(transformer_to_latlon.transform, circle): every
\* vertex is moved to WGS84 on its own; the frame is kept to say which
\* geographic points the polygon holds
circle_to_latlon(code, poly) ==
    [center |-> transformer_to_latlon(code, poly.center), radius |-> poly.radius,
     quad_segs |-> poly.quad_segs, frame |-> code]

\* polygon.contains(point) for a polygon in WGS84
contains(poly_latlon, point) ==
    polygon_contains(buffer(transformer_to_utm(poly_latlon.frame, poly_latlon.center),
                            poly_latlon.radius, poly_latlon.quad_segs),
                     transformer_to_utm(poly_latlon.frame, point))

CircIdle == [pc |-> "idle", variant |-> "none", point |-> Point(0, 0), radius_feet |-> 0,
             distance |-> 0, angle |-> <<29, 0>>,
             circle_latlon |-> circle_to_latlon(0, buffer(Point(0, 0), 0, resolution))]

\* the body shared by both variants, given the center's offset from the point
create_obfuscated_circle(variant, point, radius_feet, angle, distance) ==
    LET utm == utm_crs(point)
        xy == transformer_to_utm(utm, point)
        center == offset_center(xy, angle, distance)
        circle == buffer(center, radius_m(radius_feet), resolution)
    IN  [pc |-> "done", variant |-> variant, point |-> point, radius_feet |-> radius_feet,
         distance |-> distance, angle |-> angle,
         circle_latlon |-> circle_to_latlon(utm, circle)]

CircleRadiusInputs == (0 - 1) .. MaxCircleRadiusFeet

\* buffer_coordinates.py lines 125-148
CircleRandomized ==
    /\ NoCallRunning
    /\ \E point \in InputPoints, radius_feet \in CircleRadiusInputs :
         \E angle \in Angles, distance \in uniform(radius_m(radius_feet)) :
            circ' = create_obfuscated_circle("randomized", point, radius_feet,
                                             angle, distance)
    /\ UNCHANGED <<obf, load, ext, cat, tbl, batch, val, pts, fs, imap>>

\* geojson_buffering.py lines 150-173: center = Point(x, y)
CircleCentered ==
    /\ NoCallRunning
    /\ \E point \in InputPoints, radius_feet \in CircleRadiusInputs :
            circ' = create_obfuscated_circle("centered", point, radius_feet,
                                             <<29, 0>>, 0)
    /\ UNCHANGED <<obf, load, ext, cat, tbl, batch, val, pts, fs, imap>>

NextCirc == CircleRandomized \/ CircleCentered

(***************************************************************************)
(* The Earth Engine client, as far as the loaders use it.  An object is a  *)
(* record of the expression it stands for; nothing is evaluated before     *)
(* getInfo(), which is where the service answers or an exception is raised.*)
(***************************************************************************)
ee_Image(dataset_id) ==
    [kind |-> "Image", id |-> dataset_id, filter |-> << >>, reducer |-> "none"]

ee_ImageCollection(dataset_id) ==
    [kind |-> "ImageCollection", id |-> dataset_id, filter |-> << >>, reducer |-> "none"]

ee_FeatureCollection(dataset_id) ==
    [kind |-> "FeatureCollection", id |-> dataset_id, filter |-> << >>, reducer |-> "none"]

\* col.filterDate(start_date, end_date)
filterDate(col, start_date, end_date) == [col EXCEPT !.filter = <<start_date, end_date>>]

\* col.median()
median(col) == [col EXCEPT !.kind = "Image", !.reducer = "median"]

\* fc.reduceToImage(properties=[], reducer=ee.Reducer.constant(1))
reduceToImage(fc) == [fc EXCEPT !.kind = "Image", !.reducer = "constant"]

\* no image: what a call that raised leaves its caller with
NoImage == [kind |-> "none", id |-> None, filter |-> << >>, reducer |-> "none"]

\* The catalog records {id, type} of the remote catalog, and the ids a caller
\* may pass: the last one is in no record.
Catalog ==
    { [id |-> "test/image", type |-> "image",
       title |-> "Test Image", url |-> "https://example.com/image"],
      [id |-> "test/collection", type |-> "image_collection",
       title |-> "Test Collection", url |-> "https://example.com/collection"],
      [id |-> "test/feature", type |-> "feature_collection",
       title |-> "Test Features", url |-> "https://example.com/feature"] }

DatasetIds == {"test/image", "test/collection", "test/feature", "test/unknown"}

\* skiba.common.get_dataset_type: the type of the record whose id is
\* dataset_id (exact match), None when there is none
get_dataset_type(dataset_id) ==
    IF \E item \in Catalog : item.id = dataset_id
    THEN (CHOOSE item \in Catalog : item.id = dataset_id).type
    ELSE None

\* the date arguments a caller passes: None (not given) or a YYYY-MM-DD string
Dates == {None, "2024-01-01", "2024-12-31"}

\* datetime.strptime(d, "%Y-%m-%d").date() of the date strings, as the number
\* of days after 2024-01-01: dates compare as these numbers do
strptime ==
    [d \in Dates \ {None} |-> IF d = "2024-01-01" THEN 0 ELSE 365]

\* how a block of remote calls ends: it returns, its first call (the loader)
\* raises (also the NameError of a module that never imports ee), or the
\* evaluation in getInfo() raises
Outcomes == {"ok", "loader_raises", "getInfo_raises"}

LoadIdle == [pc |-> "idle", variant |-> "none", dataset_id |-> None,
             arg_start |-> None, arg_end |-> None,
             start_date |-> None, end_date |-> None, data_type |-> None,
             calls |-> << >>, tried |-> << >>, failed |-> << >>,
             result |-> NoImage, error |-> "none", message |-> << >>]

\* The texts of the two ValueErrors, word by word (buffer_method.py line 257,
\* point_extraction.py line 202).
probing_message ==
    <<"Dataset", "ID", "is", "not", "a", "valid", "Image,", "ImageCollection,",
      "or", "FeatureCollection.">>

declared_message ==
    <<"Dataset", "ID", "is", "not", "a", "valid", "Image", "or", "ImageCollection.">>

\* assertIn(words, str(exception)): the words are in the text, side by side
assertIn(words, text) ==
    \E i \in 0 .. (Len(text) - Len(words)) :
        \A j \in 1 .. Len(words) : text[i + j] = words[j]

\* the calls a block logs: all of them, or only the loader when it raises
logged(outcome, calls) == IF outcome = "loader_raises" THEN <<calls[1]>> ELSE calls

(***************************************************************************)
(* buffer_method.load_gee_as_image / coordinate_oriented.load_gee_as_image *)
(* (dataset_id, start_date=None, end_date=None): the type is probed.       *)
(***************************************************************************)
\* the try block that follows a failed one; skipping the collection
probe_next_skipping(step) ==
    IF step = "try_image" THEN "try_feature" ELSE "raise"

\* the try block that follows a failed one (lines 230-231, 245-246, 255-258)
probe_next(step) ==
    CASE step = "try_image" -> "try_collection"
      [] step = "try_collection" -> "try_feature"
      [] OTHER -> "raise"

\* a failed block: `except Exception: pass`, or the ValueError of the last one
probe_failed(l, loader, step, calls) ==
    LET next == probe_next(step)
    IN  [l EXCEPT !.calls = l.calls \o calls,
                  !.tried = Append(l.tried, loader),
                  !.failed = Append(l.failed, loader),
                  !.pc = IF next = "raise" THEN "done" ELSE next,
                  !.error = IF next = "raise" THEN "ValueError" ELSE "none",
                  !.message = IF next = "raise" THEN probing_message ELSE << >>]

\* a block that reaches its `return img`
probe_returned(l, loader, calls, img) ==
    [l EXCEPT !.calls = l.calls \o calls, !.tried = Append(l.tried, loader),
              !.pc = "done", !.result = img]

ProbeStart ==
    /\ NoCallRunning
    /\ \E dataset_id \in DatasetIds, start_date \in Dates, end_date \in Dates :
          load' = [LoadIdle EXCEPT !.pc = "try_image", !.variant = "probing",
                                   !.dataset_id = dataset_id,
                                   !.arg_start = start_date, !.arg_end = end_date,
                                   !.start_date = start_date, !.end_date = end_date]
    /\ UNCHANGED <<obf, circ, ext, cat, tbl, batch, val, pts, fs, imap>>

\* lines 225-231
ProbeImage ==
    /\ load.pc = "try_image"
    /\ \E outcome \in Outcomes :
          LET img == ee_Image(load.dataset_id)
              calls == logged(outcome, <<"ee.Image", "getInfo">>)
          IN  load' = IF outcome = "ok"
                      THEN probe_returned(load, "Image", calls, img)
                      ELSE probe_failed(load, "Image", "try_image", calls)
    /\ UNCHANGED <<obf, circ, ext, cat, tbl, batch, val, pts, fs, imap>>

\* lines 234-246
ProbeCollection ==
    /\ load.pc = "try_collection"
    /\ \E outcome \in Outcomes :
          LET col == ee_ImageCollection(load.dataset_id)
              filtered == Truthy(load.start_date) /\ Truthy(load.end_date)
              col2 == IF filtered THEN filterDate(col, load.start_date, load.end_date)
                      ELSE col
              img == median(col2)
              calls == logged(outcome,
                              IF filtered
                              THEN <<"ee.ImageCollection", "filterDate", "median", "getInfo">>
                              ELSE <<"ee.ImageCollection", "median", "getInfo">>)
          IN  load' = IF outcome = "ok"
                      THEN probe_returned(load, "ImageCollection", calls, img)
                      ELSE probe_failed(load, "ImageCollection", "try_collection", calls)
    /\ UNCHANGED <<obf, circ, ext, cat, tbl, batch, val, pts, fs, imap>>

\* lines 249-258
ProbeFeature ==
    /\ load.pc = "try_feature"
    /\ \E outcome \in Outcomes :
          LET img == reduceToImage(ee_FeatureCollection(load.dataset_id))
              calls == logged(outcome,
                              <<"ee.FeatureCollection", "reduceToImage", "getInfo">>)
          IN  load' = IF outcome = "ok"
                      THEN probe_returned(load, "FeatureCollection", calls, img)
                      ELSE probe_failed(load, "FeatureCollection", "try_feature", calls)
    /\ UNCHANGED <<obf, circ, ext, cat, tbl, batch, val, pts, fs, imap>>

(***************************************************************************)
(* PointExtraction.load_gee_as_image(dataset_id, start_date, end_date):    *)
(* the type is the one the catalog declares.                               *)
(***************************************************************************)
\* a dispatch that takes an image for a collection
typed_branch_confused(data_type) ==
    CASE data_type = "image" -> "typed_collection"
      [] data_type = "image_collection" -> "typed_image"
      [] OTHER -> "typed_invalid"

\* a dispatch that loads whatever is not an image as a collection
typed_branch_lenient(data_type) ==
    CASE data_type = "image" -> "typed_image"
      [] OTHER -> "typed_collection"

\* lines 189, 193, 201: the branch of the if / elif / else
typed_branch(data_type) ==
    CASE data_type = "image" -> "typed_image"
      [] data_type = "image_collection" -> "typed_collection"
      [] OTHER -> "typed_invalid"

\* lines 185-187: the type lookup, and both dates rebound to their str()
TypedStart ==
    /\ NoCallRunning
    /\ \E dataset_id \in DatasetIds, start_date \in Dates, end_date \in Dates :
          load' = [LoadIdle EXCEPT !.pc = typed_branch(get_dataset_type(dataset_id)),
                                   !.variant = "declared",
                                   !.dataset_id = dataset_id,
                                   !.data_type = get_dataset_type(dataset_id),
                                   !.arg_start = start_date, !.arg_end = end_date,
                                   !.start_date = str(start_date),
                                   !.end_date = str(end_date)]
    /\ UNCHANGED <<obf, circ, ext, cat, tbl, batch, val, pts, fs, imap>>

\* lines 190-192: no try block, an exception of the service reaches the caller
TypedImage ==
    /\ load.pc = "typed_image"
    /\ \E outcome \in Outcomes :
          LET calls == logged(outcome, <<"ee.Image", "getInfo">>)
          IN  load' = [load EXCEPT !.pc = "done", !.calls = calls,
                                   !.tried = <<"Image">>,
                                   !.result = IF outcome = "ok"
                                              THEN ee_Image(load.dataset_id) ELSE NoImage,
                                   !.error = IF outcome = "ok"
                                             THEN "none" ELSE "RemoteError"]
    /\ UNCHANGED <<obf, circ, ext, cat, tbl, batch, val, pts, fs, imap>>

\* lines 194-200: nothing is evaluated here, so nothing of the service raises
TypedCollection ==
    /\ load.pc = "typed_collection"
    /\ LET col == ee_ImageCollection(load.dataset_id)
           filtered == load.start_date # None /\ load.end_date # None
           col2 == IF filtered THEN filterDate(col, load.start_date, load.end_date)
                   ELSE col
       IN  load' = [load EXCEPT !.pc = "done",
                                !.calls = IF filtered
                                          THEN <<"ee.ImageCollection", "filterDate", "median">>
                                          ELSE <<"ee.ImageCollection", "median">>,
                                !.tried = <<"ImageCollection">>,
                                !.result = median(col2)]
    /\ UNCHANGED <<obf, circ, ext, cat, tbl, batch, val, pts, fs, imap>>

\* lines 201-202
TypedInvalid ==
    /\ load.pc = "typed_invalid"
    /\ load' = [load EXCEPT !.pc = "done", !.error = "ValueError",
                             !.message = declared_message]
    /\ UNCHANGED <<obf, circ, ext, cat, tbl, batch, val, pts, fs, imap>>

NextLoad ==
    \/ ProbeStart \/ ProbeImage \/ ProbeCollection \/ ProbeFeature
    \/ TypedStart \/ TypedImage \/ TypedCollection \/ TypedInvalid

(***************************************************************************)
(* PointExtraction.get_coordinate_data (points) and                        *)
(* buffer_method.extract_median_values (polygons).                         *)
(***************************************************************************)
\* what the load_gee_as_image call of PointExtraction can give its caller
declared_load_results(dataset_id, start_date, end_date) ==
    LET branch == typed_branch(get_dataset_type(dataset_id))
    IN  CASE branch = "typed_image" ->
               { [image |-> ee_Image(dataset_id), error |-> "none"],
                 [image |-> NoImage, error |-> "RemoteError"] }
          [] branch = "typed_collection" ->
               { [image |-> median(filterDate(ee_ImageCollection(dataset_id),
                                              str(start_date), str(end_date))),
                  error |-> "none"] }
          [] OTHER -> { [image |-> NoImage, error |-> "ValueError"] }

\* what the load_gee_as_image call of buffer_method can give its caller
probing_load_results(dataset_id, start_date, end_date) ==
    LET col == ee_ImageCollection(dataset_id)
    IN  { [image |-> ee_Image(dataset_id), error |-> "none"],
          [image |-> median(IF Truthy(start_date) /\ Truthy(end_date)
                            THEN filterDate(col, start_date, end_date) ELSE col),
           error |-> "none"],
          [image |-> reduceToImage(ee_FeatureCollection(dataset_id)), error |-> "none"],
          [image |-> NoImage, error |-> "ValueError"] }

\* The rows image.sampleRegions gives for geometries i .. n, in the order of
\* the geometries: pixels[i] rows for geometry i, each carrying its index.
\* The service decides pixels[i]: the number of unmasked pixels the geometry
\* meets at the sampling scale (0 when its pixels are masked).
RECURSIVE sampleRegions(_, _, _)
sampleRegions(i, n, pixels) ==
    IF i > n THEN << >>
    ELSE [k \in 1 .. pixels[i] |-> i] \o sampleRegions(i + 1, n, pixels)

\* the pixel counts the service can report: a point meets one pixel, or none
\* that is unmasked; a polygon meets up to MaxPixels pixel centers
PixelCounts(mode, n) ==
    [1 .. n -> 0 .. (IF mode = "point" THEN 1 ELSE MaxPixels)]

\* one call of the log: the function and the arguments that are followed
Call(fn, args) == [fn |-> fn, args |-> args]

\* the file paths a caller passes as `data`
Paths == {"test.csv", "plots.csv"}

\* The calls that build the table of geometries.
\* point_extraction.py lines 124-139: a path is read with pd.read_csv(data),
\* a path and a DataFrame go through gpd.GeoDataFrame, anything else through
\* to_crs.  buffer_method.py lines 117-137: gpd.read_file(data) or
\* gpd.GeoDataFrame, then set_crs or to_crs (logged as to_crs).
build_calls(mode, input, data) ==
    IF mode = "point"
    THEN CASE input = "path" ->
                <<Call("pd.read_csv", <<data>>), Call("gpd.GeoDataFrame", << >>)>>
           [] input = "DataFrame" -> <<Call("gpd.GeoDataFrame", << >>)>>
           [] OTHER -> <<Call("to_crs", << >>)>>
    ELSE CASE input = "path" ->
                <<Call("gpd.read_file", <<data>>), Call("to_crs", << >>)>>
           [] input = "DataFrame" ->
                <<Call("gpd.GeoDataFrame", << >>), Call("to_crs", << >>)>>
           [] OTHER -> <<Call("to_crs", << >>)>>

\* the loader called with the two dates in each other's place
load_call_args_swapped(geedata, start_date, end_date) ==
    <<geedata, end_date, start_date>>

\* line 143: load_gee_as_image(geedata, start_date, end_date)
load_call_args(geedata, start_date, end_date) == <<geedata, start_date, end_date>>

\* an exception of the loader that is swallowed
after_load_swallowed(error) == "sample"

\* line 143 is in no try block: an exception of the loader ends the call
after_load(error) == IF error = "none" THEN "sample" ELSE "done"

\* a sampling call for each geometry, made in a loop of the client
sampling_calls_per_geometry(n) ==
    [i \in 1 .. n |-> Call("gm.extract_values_to_points", << >>)]

\* point_extraction.py line 149, buffer_method.py line 153: the collection of
\* all n geometries is passed to one gm.extract_values_to_points call
sampling_calls(n) == <<Call("gm.extract_values_to_points", << >>)>>

ExtIdle == [pc |-> "idle", mode |-> "none", input |-> "none", data |-> "none",
            n |-> 0, geedata |-> None, start_date |-> None, end_date |-> None,
            calls |-> << >>, image |-> NoImage, rows |-> << >>,
            wrote |-> FALSE, error |-> "none", returned |-> << >>]

\* point_extraction.py lines 124-141, buffer_method.py lines 117-140: the
\* table of n geometries is built (a path is read once) and sent to the service
ExtStart ==
    /\ NoCallRunning
    /\ \E mode \in {"point", "area"}, input \in {"path", "DataFrame", "GeoDataFrame"},
          n \in 0 .. MaxGeometries, geedata \in DatasetIds,
          start_date \in Dates, end_date \in Dates :
          \E data \in (IF input = "path" THEN Paths ELSE {input}) :
             ext' = [ExtIdle EXCEPT !.pc = "load", !.mode = mode, !.input = input,
                                    !.data = data, !.n = n, !.geedata = geedata,
                                    !.start_date = start_date, !.end_date = end_date,
                                    !.calls = build_calls(mode, input, data)
                                                \o <<Call("gm.geojson_to_ee", << >>)>>]
    /\ UNCHANGED <<obf, circ, load, cat, tbl, batch, val, pts, fs, imap>>

\* point_extraction.py line 143, buffer_method.py line 143: an exception of
\* load_gee_as_image is not caught and ends the call
ExtLoad ==
    /\ ext.pc = "load"
    /\ LET args == load_call_args(ext.geedata, ext.start_date, ext.end_date)
       IN  \E r \in (IF ext.mode = "point"
                      THEN declared_load_results(args[1], args[2], args[3])
                      ELSE probing_load_results(args[1], args[2], args[3])) :
              ext' = [ext EXCEPT !.pc = after_load(r.error),
                                 !.calls = Append(ext.calls,
                                                  Call("load_gee_as_image", args)),
                                 !.image = r.image, !.error = r.error]
    /\ UNCHANGED <<obf, circ, load, cat, tbl, batch, val, pts, fs, imap>>

\* point_extraction.py lines 144-151, buffer_method.py lines 145-155: one
\* gm.extract_values_to_points(fc, geeimage, out_path) call, which samples the
\* image with sampleRegions and writes the rows to out_path
ExtSample ==
    /\ ext.pc = "sample"
    /\ \E pixels \in PixelCounts(ext.mode, ext.n) :
          ext' = [ext EXCEPT !.pc = "done",
                             !.calls = ext.calls \o sampling_calls(ext.n),
                             !.rows = sampleRegions(1, ext.n, pixels),
                             !.wrote = TRUE,
                             !.returned = sampleRegions(1, ext.n, pixels)]
    /\ UNCHANGED <<obf, circ, load, cat, tbl, batch, val, pts, fs, imap>>

NextExt == ExtStart \/ ExtLoad \/ ExtSample

(***************************************************************************)
(* The catalog requests.  buffer_coordinates and buffer_method fetch the   *)
(* catalog with their own fetch_geojson, in __init__ and in every          *)
(* on_dropdown_change; PointExtraction asks the helpers of skiba.common.   *)
(***************************************************************************)
\* the url of lines 31 and 111
catalog_url ==
    "https://raw.githubusercontent.com/opengeos/geospatial-data-catalogs/master/gee_catalog.json"

\* the urls a direct call of fetch_geojson is given
Urls == {"https://example.com/data.json", "https://example.com/other.json"}

\* the JSON value the server of a url sends: the catalog array, or a
\* FeatureCollection without features
served(url) == IF url = catalog_url THEN Catalog ELSE {}

\* a parsed JSON array, and Python's None in the place of one
Parsed(items) == [value |-> "list", items |-> items]
NoData == [value |-> "None", items |-> {}]

\* How one request ends: it is answered, requests.get raises (line 202),
\* raise_for_status raises (line 203) or response.json() raises (line 204).
FetchOutcomes == {"ok", "ConnectionError", "Timeout", "HTTPError", "JSONDecodeError"}

\* except clauses that name the two exception classes only
caught_narrow(exc) == exc \in {"HTTPError", "ConnectionError"}

\* lines 206-210: the last clause is `except Exception`
caught(exc) == exc \in FetchOutcomes \ {"ok"}

\* the text printed by the except clause that takes the exception
except_message(exc) ==
    CASE exc = "HTTPError" -> "HTTP error occurred"
      [] exc = "ConnectionError" -> "Error connecting to the server"
      [] OTHER -> "An error occurred"

\* no request: the part of a handler that fetches nothing
NoFetch == [http |-> << >>, data |-> NoData, printed |-> << >>, raised |-> "none"]

\* fetch_geojson(url), lines 201-212: one requests.get inside one try
fetch_geojson(url, outcome) ==
    LET request == <<[url |-> url, outcome |-> outcome]>>
    IN  IF outcome = "ok"
        THEN [http |-> request, data |-> Parsed(served(url)),
              printed |-> << >>, raised |-> "none"]
        ELSE IF caught(outcome)
        THEN [http |-> request, data |-> NoData,
              printed |-> <<except_message(outcome)>>, raised |-> "none"]
        ELSE [http |-> request, data |-> NoData,
              printed |-> << >>, raised |-> outcome]

\* {item["id"]: item["url"] for item in data if "id" in item}.get(change_value)
data_dict_get(data, change_value) ==
    IF \E item \in data.items : item.id = change_value
    THEN (CHOOSE item \in data.items : item.id = change_value).url
    ELSE None

\* `for item in data` with data = None raises TypeError
comprehension_raises(f) ==
    IF f.raised # "none" THEN f.raised
    ELSE IF f.data = NoData THEN "TypeError" ELSE "none"

FetchingClasses == {"buffer_coordinates", "buffer_method"}
CachedClasses == {"PointExtraction"}

\* the values of change["new"]: a dataset id, or nothing selected
ChangeValues == DatasetIds \cup {None}

NoCall == [op |-> "none", class |-> "none", outcome |-> "none", gets |-> 0,
           data |-> NoData, printed |-> << >>, url |-> None,
           raised |-> "none", reached_caller |-> "none"]

CatIdle == [widgets |-> {}, cache |-> "unset", http |-> << >>, printed |-> << >>,
            n |-> 0, last |-> NoCall]

\* the state after a call that made the requests of f
cat_after(c, op, class, outcome, f, url, raised, reached_caller) ==
    [c EXCEPT !.http = c.http \o f.http,
              !.printed = c.printed \o f.printed,
              !.n = c.n + 1,
              !.last = [op |-> op, class |-> class,
                        outcome |-> IF f.http = << >> THEN "none" ELSE outcome,
                        gets |-> Len(f.http), data |-> f.data, printed |-> f.printed,
                        url |-> url, raised |-> raised,
                        reached_caller |-> reached_caller]]

\* a direct call of fetch_geojson(url), as the tests make it
FetchGeojson ==
    /\ NoCallRunning
    /\ cat.n < MaxLookups
    /\ \E class \in FetchingClasses, url \in Urls, outcome \in FetchOutcomes :
          LET f == fetch_geojson(url, outcome)
          IN  cat' = cat_after(cat, "fetch_geojson", class, outcome, f, url,
                               f.raised, f.raised)
    /\ UNCHANGED <<obf, circ, load, ext, tbl, batch, val, pts, fs, imap>>

\* buffer_coordinates.__init__ lines 30-39, buffer_method.__init__ lines 26-33:
\* the dictionary of the dropdown is built from what fetch_geojson returned
WidgetInit ==
    /\ NoCallRunning
    /\ cat.n < MaxLookups
    /\ \E class \in FetchingClasses, outcome \in FetchOutcomes :
          LET f == fetch_geojson(catalog_url, outcome)
              raised == comprehension_raises(f)
              c == cat_after(cat, "init", class, outcome, f, None, raised, raised)
          IN  cat' = [c EXCEPT !.widgets = IF raised = "none"
                                           THEN c.widgets \cup {class} ELSE c.widgets]
    /\ UNCHANGED <<obf, circ, load, ext, tbl, batch, val, pts, fs, imap>>

\* buffer_coordinates.on_dropdown_change lines 104-117, buffer_method lines
\* 58-70.  The body runs inside `with self.output`: under an IPython kernel
\* the Output widget shows an exception and swallows it, elsewhere the
\* exception leaves the handler.
DropdownChange ==
    /\ NoCallRunning
    /\ cat.n < MaxLookups
    /\ \E class \in cat.widgets \cap FetchingClasses, new \in ChangeValues,
          outcome \in FetchOutcomes, ipython \in BOOLEAN :
          IF ~Truthy(new)
          THEN cat' = cat_after(cat, "on_dropdown_change", class, outcome, NoFetch,
                                None, "none", "none")
          ELSE LET f == fetch_geojson(catalog_url, outcome)
                   raised == comprehension_raises(f)
               IN  cat' = cat_after(cat, "on_dropdown_change", class, outcome, f,
                                    IF raised = "none"
                                    THEN data_dict_get(f.data, str(new)) ELSE None,
                                    raised,
                                    IF ipython THEN "none" ELSE raised)
    /\ UNCHANGED <<obf, circ, load, ext, tbl, batch, val, pts, fs, imap>>

\* skiba.common, the catalog behind get_gee_catalog_as_dict, get_dataset_url
\* and get_dataset_type: the first lookup of the process fetches the catalog,
\* every later one reuses what the first left, the array or the failure.
get_gee_catalog(c, outcome) ==
    IF c.cache = "unset"
    THEN [cache |-> IF outcome = "ok" THEN "loaded" ELSE "failed",
          f |-> fetch_geojson(catalog_url, outcome)]
    ELSE [cache |-> c.cache,
          f |-> [NoFetch EXCEPT !.data = IF c.cache = "loaded"
                                         THEN Parsed(Catalog) ELSE NoData]]

\* PointExtraction.__init__ lines 21-27 (get_gee_catalog_as_dict),
\* on_dropdown_change lines 51-58 (get_dataset_url) and load_gee_as_image
\* line 185 (get_dataset_type)
CachedLookup ==
    /\ NoCallRunning
    /\ cat.n < MaxLookups
    /\ \E class \in CachedClasses, outcome \in FetchOutcomes,
          op \in {"init", "on_dropdown_change", "get_dataset_type"},
          new \in DatasetIds :
          /\ op = "on_dropdown_change" => class \in cat.widgets
          /\ LET g == get_gee_catalog(cat, outcome)
                 c == cat_after(cat, op, class, outcome, g.f,
                                IF op = "on_dropdown_change"
                                THEN data_dict_get(g.f.data, new) ELSE None,
                                "none", "none")
             IN  cat' = [c EXCEPT !.cache = g.cache,
                                  !.widgets = IF op = "init"
                                              THEN c.widgets \cup {class}
                                              ELSE c.widgets]
    /\ UNCHANGED <<obf, circ, load, ext, tbl, batch, val, pts, fs, imap>>

NextCat == FetchGeojson \/ WidgetInit \/ DropdownChange \/ CachedLookup

(***************************************************************************)
(* PointExtraction.on_button_clicked, lines 68-110: the columns of the     *)
(* uploaded table are resolved and renamed, then get_coordinate_data is    *)
(* called with the table.                                                  *)
(***************************************************************************)
lat_cols == <<"lat", "latitude", "y", "LAT", "Latitude", "Lat", "Y">>
lon_cols == <<"lon", "long", "longitude", "x", "LON", "Longitude", "Long", "X">>
id_cols == <<"id", "ID", "plot_ID", "plot_id", "plotID", "plotId">>

\* name.lower(), for the aliases and the column names of the model
lower(name) ==
    CASE name \in {"lat", "LAT", "Lat"} -> "lat"
      [] name \in {"latitude", "Latitude", "LATITUDE"} -> "latitude"
      [] name \in {"y", "Y"} -> "y"
      [] name \in {"lon", "LON"} -> "lon"
      [] name \in {"long", "Long"} -> "long"
      [] name \in {"longitude", "Longitude", "LONGITUDE"} -> "longitude"
      [] name \in {"x", "X"} -> "x"
      [] name \in {"id", "ID"} -> "id"
      [] name \in {"plot_ID", "plot_id", "Plot_ID"} -> "plot_id"
      [] name \in {"plotID", "plotId"} -> "plotid"
      [] OTHER -> name

\* the names a table of the model can give its columns
ColumnNames ==
    {"lat", "LAT", "Latitude", "LATITUDE", "Longitude", "LONGITUDE", "x",
     "plot_id", "Plot_ID", "value"}

\* the column lists of the tables: up to MaxColumns names, no name twice
Tables ==
    UNION { {columns \in [1 .. n -> ColumnNames] :
                \A i, j \in 1 .. n : columns[i] = columns[j] => i = j} :
            n \in 0 .. MaxColumns }

Range(seq) == {seq[i] : i \in DOMAIN seq}
Min(S) == CHOOSE x \in S : \A y \in S : x <= y
Max(S) == CHOOSE x \in S : \A y \in S : x >= y

\* {c.lower(): c for c in columns}: a later column replaces an earlier one
lower_columns(columns) ==
    [l \in {lower(c) : c \in Range(columns)} |->
        columns[Max({j \in DOMAIN columns : lower(columns[j]) = l})]]

\* find_column without its fallback
find_column_exact_only(possible_names, columns) ==
    LET exact == {i \in DOMAIN possible_names : possible_names[i] \in Range(columns)}
    IN  IF exact # {}
        THEN [raised |-> "none", name |-> possible_names[Min(exact)]]
        ELSE [raised |-> "ValueError", name |-> None]

\* find_column(possible_names, columns), lines 86-95
find_column(possible_names, columns) ==
    LET exact == {i \in DOMAIN possible_names : possible_names[i] \in Range(columns)}
        folded == {i \in DOMAIN possible_names :
                      lower(possible_names[i]) \in DOMAIN lower_columns(columns)}
    IN  IF exact # {}
        THEN [raised |-> "none", name |-> possible_names[Min(exact)]]
        ELSE IF folded # {}
        THEN [raised |-> "none",
              name |-> lower_columns(columns)[lower(possible_names[Min(folded)])]]
        ELSE [raised |-> "ValueError", name |-> None]

\* points.rename(columns={lat_col: "LAT", lon_col: "LON", id_col: "plot_ID"})
rename(columns, lat_col, lon_col, id_col) ==
    [i \in DOMAIN columns |->
        CASE columns[i] = lat_col -> "LAT"
          [] columns[i] = lon_col -> "LON"
          [] columns[i] = id_col -> "plot_ID"
          [] OTHER -> columns[i]]

TblIdle == [pc |-> "idle", uploaded |-> FALSE, columns |-> << >>,
            lat_col |-> None, lon_col |-> None, id_col |-> None,
            renamed |-> << >>, error |-> "none", geometry_built |-> FALSE]

\* lines 68-72 and 103-104: the uploaded file is read; without a file a
\* message is printed and `points` stays unbound
TblRead ==
    /\ NoCallRunning
    /\ \E uploaded \in BOOLEAN, columns \in Tables :
          tbl' = [TblIdle EXCEPT !.pc = "read", !.uploaded = uploaded,
                                 !.columns = IF uploaded THEN columns ELSE << >>]
    /\ UNCHANGED <<obf, circ, load, ext, cat, batch, val, pts, fs, imap>>

\* lines 97-99: the three columns, in this order; the first ValueError ends
\* the handler
TblFind ==
    /\ tbl.pc = "read" /\ tbl.uploaded
    /\ LET lat == find_column(lat_cols, tbl.columns)
           lon == find_column(lon_cols, tbl.columns)
           id == find_column(id_cols, tbl.columns)
       IN  tbl' = IF lat.raised # "none" \/ lon.raised # "none" \/ id.raised # "none"
                  THEN [tbl EXCEPT !.pc = "raised", !.error = "ValueError",
                                   !.lat_col = lat.name,
                                   !.lon_col = IF lat.raised = "none"
                                               THEN lon.name ELSE None]
                  ELSE [tbl EXCEPT !.pc = "found", !.lat_col = lat.name,
                                   !.lon_col = lon.name, !.id_col = id.name]
    /\ UNCHANGED <<obf, circ, load, ext, cat, batch, val, pts, fs, imap>>

\* lines 100-102
TblRename ==
    /\ tbl.pc = "found"
    /\ tbl' = [tbl EXCEPT !.pc = "renamed",
                          !.renamed = rename(tbl.columns, tbl.lat_col,
                                             tbl.lon_col, tbl.id_col)]
    /\ UNCHANGED <<obf, circ, load, ext, cat, batch, val, pts, fs, imap>>

\* lines 105-110: get_coordinate_data(data=points, ...) builds the geometry
\* from the LON and LAT columns; an unbound `points` raises before the call
TblCall ==
    /\ \/ tbl.pc = "renamed"
       \/ tbl.pc = "read" /\ ~tbl.uploaded
    /\ tbl' = IF tbl.uploaded
              THEN [tbl EXCEPT !.pc = "called", !.geometry_built = TRUE]
              ELSE [tbl EXCEPT !.pc = "raised", !.error = "UnboundLocalError"]
    /\ UNCHANGED <<obf, circ, load, ext, cat, batch, val, pts, fs, imap>>

NextTbl == TblRead \/ TblFind \/ TblRename \/ TblCall

(***************************************************************************)
(* buffer_coordinates.obfuscate_points_to_circles(data, radius_feet,       *)
(* plot_id_col, output_file), in buffer_coordinates.py (randomized center) *)
(* and in geojson_buffering.py (center on the point).                      *)
(***************************************************************************)
\* the rows a table can hold: an identifier and a position (WGS84); two of
\* the rows have one identifier
RowInputs ==
    { [plot_ID |-> "A", point |-> Point(Deg(0 - 122), Deg(44))],
      [plot_ID |-> "B", point |-> Point(Deg(3), Deg(51))],
      [plot_ID |-> "A", point |-> Point(Deg(0 - 177), Deg(0 - 17))] }

BatchTables == UNION { [1 .. n -> RowInputs] : n \in 0 .. MaxRows }

\* what `data` is, and the frame its geometry is in: a path and a DataFrame
\* hold LON and LAT columns, a GeoDataFrame has a crs of its own
BatchInputs ==
    { [kind |-> "path", crs |-> 4326], [kind |-> "DataFrame", crs |-> 4326],
      [kind |-> "GeoDataFrame", crs |-> 4326], [kind |-> "GeoDataFrame", crs |-> 32610] }

\* the position of a row as `data` holds it
data_geometry(input, row) ==
    IF input.crs = 4326 THEN row.point ELSE transformer_to_utm(input.crs, row.point)

\* gpd.points_from_xy(coordinates.LON, coordinates.LAT) with crs="EPSG:4326",
\* or data.to_crs(epsg=4326)
to_gdf(input, rows) ==
    [i \in DOMAIN rows |->
        [plot_ID |-> rows[i].plot_ID,
         geometry |-> IF input.kind = "GeoDataFrame" /\ input.crs # 4326
                      THEN transformer_to_latlon(input.crs, data_geometry(input, rows[i]))
                      ELSE data_geometry(input, rows[i])]]

\* a GeoDataFrame that pairs the identifiers with the circles of other rows
gdf_circles_misaligned(ids, circles, crs) ==
    [crs |-> crs,
     features |-> [i \in DOMAIN ids |->
                      [plot_ID |-> ids[i], geometry |-> circles[Len(ids) + 1 - i]]]]

\* gpd.GeoDataFrame({plot_id_col: ids, "geometry": circles}, crs=gdf.crs) and
\* its to_json(): one feature per list position
gdf_circles(ids, circles, crs) ==
    [crs |-> crs,
     features |-> [i \in DOMAIN ids |-> [plot_ID |-> ids[i], geometry |-> circles[i]]]]

\* the draws of the batch: a vertex direction and the middle of an edge, the
\* smallest and the largest distance
BatchAngles == { <<29, 0>>, <<0 - 21, 0 - 20>> }
BatchDistances(radius_feet) ==
    {0, radius_m(radius_feet) - (IF radius_feet > 0 THEN 29
                                  ELSE IF radius_feet < 0 THEN 0 - 29 ELSE 0)}

BatchIdle == [pc |-> "idle", variant |-> "none", input |-> [kind |-> "none", crs |-> 0],
              radius_feet |-> 0, rows |-> << >>, gdf |-> << >>,
              circles |-> << >>, ids |-> << >>,
              output |-> gdf_circles(<< >>, << >>, 0), wrote |-> FALSE]

\* lines 160-178: the GeoDataFrame in WGS84 and the two empty lists
BatchStart ==
    /\ NoCallRunning
    /\ \E variant \in {"randomized", "centered"}, input \in BatchInputs,
          rows \in BatchTables, radius_feet \in RadiusInputs :
          batch' = [BatchIdle EXCEPT !.pc = "loop", !.variant = variant,
                                     !.input = input, !.radius_feet = radius_feet,
                                     !.rows = rows, !.gdf = to_gdf(input, rows)]
    /\ UNCHANGED <<obf, circ, load, ext, cat, tbl, val, pts, fs, imap>>

\* lines 179-183: one iteration of `for idx, row in gdf.iterrows()`
BatchRow ==
    /\ batch.pc = "loop"
    /\ Len(batch.circles) < Len(batch.gdf)
    /\ LET row == batch.gdf[Len(batch.circles) + 1]
       IN  \E angle \in BatchAngles, distance \in BatchDistances(batch.radius_feet) :
              /\ batch.variant = "centered" => (angle = <<29, 0>> /\ distance = 0)
              /\ batch' = [batch EXCEPT
                    !.circles = Append(batch.circles,
                                       create_obfuscated_circle(batch.variant, row.geometry,
                                                                batch.radius_feet, angle,
                                                                distance).circle_latlon),
                    !.ids = Append(batch.ids, row.plot_ID)]
    /\ UNCHANGED <<obf, circ, load, ext, cat, tbl, val, pts, fs, imap>>

\* lines 184-192: the output table, written as GeoJSON and returned
BatchWrite ==
    /\ batch.pc = "loop"
    /\ Len(batch.circles) = Len(batch.gdf)
    /\ batch' = [batch EXCEPT !.pc = "done",
                              !.output = gdf_circles(batch.ids, batch.circles, 4326),
                              !.wrote = TRUE]
    /\ UNCHANGED <<obf, circ, load, ext, cat, tbl, val, pts, fs, imap>>

NextBatch == BatchStart \/ BatchRow \/ BatchWrite

(***************************************************************************)
(* The validators of common.py.  Each returns the list of its error        *)
(* messages; a message is written here without the values it quotes.       *)
(***************************************************************************)
\* A date argument: None, a datetime.date, or a string.  A string is held as
\* its separator and the numbers between the separators, so "2024-02-30" is
\* the separator "-" and the fields 2024, 2, 30, and "" has no field.
PyNone == [type |-> "NoneType", sep |-> "", fields |-> << >>]
date(y, m, d) == [type |-> "date", sep |-> "", fields |-> <<y, m, d>>]
datestr(sep, fields) == [type |-> "str", sep |-> sep, fields |-> fields]

\* the days of a month of the proleptic Gregorian calendar
days_in_month(y, m) ==
    CASE m \in {4, 6, 9, 11} -> 30
      [] m = 2 -> IF (y % 4 = 0 /\ y % 100 # 0) \/ y % 400 = 0 THEN 29 ELSE 28
      [] OTHER -> 31

\* datetime.strptime(s, "%Y-%m-%d").date(): year, month and day separated by
\* "-" and naming a day of the calendar, or a ValueError
strptime_date(s) ==
    IF /\ s.sep = "-" /\ Len(s.fields) = 3
       /\ s.fields[1] >= 1 /\ s.fields[1] <= 9999
       /\ s.fields[2] >= 1 /\ s.fields[2] <= 12
       /\ s.fields[3] >= 1 /\ s.fields[3] <= days_in_month(s.fields[1], s.fields[2])
    THEN [raised |-> "none", value |-> date(s.fields[1], s.fields[2], s.fields[3])]
    ELSE [raised |-> "ValueError", value |-> PyNone]

\* the order of two datetime.date values
date_gt(a, b) ==
    a.fields[1] * 10000 + a.fields[2] * 100 + a.fields[3]
        > b.fields[1] * 10000 + b.fields[2] * 100 + b.fields[3]

\* lines 93-100: a string is parsed, a date is kept
to_date(v) ==
    IF v.type = "str" THEN strptime_date(v) ELSE [raised |-> "none", value |-> v]

\* validate_date_range that also refuses a range of one day
validate_date_range_strict(start_date, end_date) ==
    IF start_date = PyNone /\ end_date = PyNone THEN << >>
    ELSE IF start_date = PyNone
    THEN <<"Start date is required when end date is provided">>
    ELSE IF end_date = PyNone
    THEN <<"End date is required when start date is provided">>
    ELSE IF to_date(start_date).raised # "none" \/ to_date(end_date).raised # "none"
    THEN <<"Invalid date format. Use YYYY-MM-DD format.">>
    ELSE IF ~date_gt(to_date(end_date).value, to_date(start_date).value)
    THEN <<"Start date must be before or equal to end date">>
    ELSE << >>

\* validate_date_range(start_date, end_date), lines 77-111
validate_date_range(start_date, end_date) ==
    IF start_date = PyNone /\ end_date = PyNone THEN << >>
    ELSE IF start_date = PyNone
    THEN <<"Start date is required when end date is provided">>
    ELSE IF end_date = PyNone
    THEN <<"End date is required when start date is provided">>
    ELSE IF to_date(start_date).raised # "none" \/ to_date(end_date).raised # "none"
    THEN <<"Invalid date format. Use YYYY-MM-DD format.">>
    ELSE IF date_gt(to_date(start_date).value, to_date(end_date).value)
    THEN <<"Start date must be before or equal to end date">>
    ELSE << >>

\* the date arguments of the model: no date, two dates, two well-formed
\* strings, a 30th of February, a 13th month, a date written with slashes and
\* the empty string
DateArgs ==
    { PyNone, date(2024, 1, 1), date(2024, 12, 31),
      datestr("-", <<2024, 1, 1>>), datestr("-", <<2024, 12, 31>>),
      datestr("-", <<2024, 2, 30>>), datestr("-", <<2024, 13, 1>>),
      datestr("/", <<1, 1, 2024>>), datestr("", << >>) }

\* A radius or count argument: its Python type and its value in tenths.
Number(type, tenths) == [type |-> type, tenths |-> tenths]

\* isinstance(radius, (int, float)); True and False are of a subclass of int
is_number(v) == v.type \in {"int", "float", "bool"}

\* isinstance(count, int)
is_int(v) == v.type \in {"int", "bool"}

\* validate_buffer_radius(radius), lines 124-142
validate_buffer_radius(radius) ==
    IF ~is_number(radius) THEN <<"Buffer radius must be a number">>
    ELSE (IF radius.tenths <= 0 THEN <<"Buffer radius must be positive">> ELSE << >>)
         \o (IF radius.tenths > 52800
             THEN <<"Buffer radius exceeds 1 mile.">> ELSE << >>)

\* validate_sample_count(count), lines 155-173
validate_sample_count(count) ==
    IF ~is_int(count) THEN <<"Sample count must be an integer">>
    ELSE (IF count.tenths <= 0 THEN <<"Sample count must be positive">> ELSE << >>)
         \o (IF count.tenths > 1000 THEN <<"Sample count is large.">> ELSE << >>)

\* the radius and count arguments of the model
NumberArgs ==
    { Number("int", 0 - 10), Number("int", 0), Number("int", 10), Number("int", 1000),
      Number("int", 1010), Number("int", 52800), Number("int", 52810),
      Number("float", 0 - 5), Number("float", 5), Number("float", 50),
      Number("float", 52805), Number("bool", 10), Number("str", 0),
      Number("NoneType", 0) }

\* A cell of a coordinate column: a number of degrees, or a missing value.
Cell(v) == [na |-> FALSE, v |-> v]
NaN == [na |-> TRUE, v |-> 0]

LatCells == {NaN, Cell(0 - 91), Cell(0 - 90), Cell(90), Cell(91)}
LonCells == {NaN, Cell(0 - 181), Cell(0 - 180), Cell(180), Cell(181)}

\* the tables: the coordinate columns they have, and up to MaxRows rows
DataFrames ==
    { [columns |-> columns, rows |-> rows] :
        columns \in SUBSET {"LAT", "LON"},
        rows \in UNION { [1 .. n -> [LAT : LatCells, LON : LonCells]] :
                         n \in 0 .. MaxRows } }

\* df[col].isna().any()
isna_any(df, col) == \E i \in DOMAIN df.rows : df.rows[i][col].na

\* the values df[col].min() and df[col].max() are taken over: missing values
\* are skipped
present(df, col) == {df.rows[i][col].v : i \in {j \in DOMAIN df.rows : ~df.rows[j][col].na}}

\* bounds that refuse the end points
out_of_bounds_open(df, col, lo, hi) ==
    \E v \in present(df, col) : v <= lo \/ v >= hi

\* lines 46-48, 54-56: min < lo or max > hi; of no value both are NaN, and
\* every comparison with NaN is false
out_of_bounds(df, col, lo, hi) ==
    /\ present(df, col) # {}
    /\ \/ Min(present(df, col)) < lo
       \/ Max(present(df, col)) > hi

\* validate_coordinates(df, lat_col="LAT", lon_col="LON"), lines 27-61
validate_coordinates(df) ==
    IF "LAT" \notin df.columns THEN <<"Latitude column 'LAT' not found in data">>
    ELSE IF "LON" \notin df.columns THEN <<"Longitude column 'LON' not found in data">>
    ELSE (IF isna_any(df, "LAT")
          THEN <<"Latitude column contains missing value(s)">> ELSE << >>)
         \o (IF isna_any(df, "LON")
             THEN <<"Longitude column contains missing value(s)">> ELSE << >>)
         \o (IF out_of_bounds(df, "LAT", 0 - 90, 90)
             THEN <<"Latitude values must be between -90 and 90.">> ELSE << >>)
         \o (IF out_of_bounds(df, "LON", 0 - 180, 180)
             THEN <<"Longitude values must be between -180 and 180.">> ELSE << >>)

\* the validators keep no state: a behaviour holds one call, its arguments
\* and the list it returned
ValIdle == [fn |-> "none", start_date |-> PyNone, end_date |-> PyNone,
            number |-> Number("NoneType", 0),
            df |-> [columns |-> {}, rows |-> << >>], errors |-> << >>]

ValidateDateRange ==
    /\ NoCallRunning /\ val.fn = "none"
    /\ \E start_date \in DateArgs, end_date \in DateArgs :
          val' = [ValIdle EXCEPT !.fn = "validate_date_range",
                                 !.start_date = start_date, !.end_date = end_date,
                                 !.errors = validate_date_range(start_date, end_date)]
    /\ UNCHANGED <<obf, circ, load, ext, cat, tbl, batch, pts, fs, imap>>

ValidateBufferRadius ==
    /\ NoCallRunning /\ val.fn = "none"
    /\ \E radius \in NumberArgs :
          val' = [ValIdle EXCEPT !.fn = "validate_buffer_radius", !.number = radius,
                                 !.errors = validate_buffer_radius(radius)]
    /\ UNCHANGED <<obf, circ, load, ext, cat, tbl, batch, pts, fs, imap>>

ValidateSampleCount ==
    /\ NoCallRunning /\ val.fn = "none"
    /\ \E count \in NumberArgs :
          val' = [ValIdle EXCEPT !.fn = "validate_sample_count", !.number = count,
                                 !.errors = validate_sample_count(count)]
    /\ UNCHANGED <<obf, circ, load, ext, cat, tbl, batch, pts, fs, imap>>

ValidateCoordinates ==
    /\ NoCallRunning /\ val.fn = "none"
    /\ \E df \in DataFrames :
          val' = [ValIdle EXCEPT !.fn = "validate_coordinates", !.df = df,
                                 !.errors = validate_coordinates(df)]
    /\ UNCHANGED <<obf, circ, load, ext, cat, tbl, batch, pts, fs, imap>>

NextVal ==
    \/ ValidateDateRange \/ ValidateBufferRadius
    \/ ValidateSampleCount \/ ValidateCoordinates

(***************************************************************************)
(* buffer.obfuscate_points(data, radius_feet, no_samp, plot_id_col,        *)
(*                         output_file)                                    *)
(***************************************************************************)
\* the draws of one create_obfuscated_points call of the batch: the two
\* directions in turn, the farthest distance and the middle one in turn
PointDraws(radius_feet) ==
    LET high == radius_m(radius_feet)
        step == IF high > 0 THEN 29 ELSE IF high < 0 THEN 0 - 29 ELSE 0
        middle == IF high = 0 THEN 0 ELSE step * ((high \div step) \div 2)
    IN  { [j \in 1 .. MaxSamples |->
              IF j % 2 = 1
              THEN [angle |-> first, distance |-> high - step]
              ELSE [angle |-> CHOOSE a \in BatchAngles : a # first,
                    distance |-> middle]] :
            first \in BatchAngles }

\* lines 181-193 of create_obfuscated_points: the loop over range(no_samp),
\* taking its draws from the list, and the list of points it returns
RECURSIVE create_obfuscated_points_loop(_, _)
create_obfuscated_points_loop(o, draws) ==
    IF loop_continues(o)
    THEN create_obfuscated_points_loop(
             create_obfuscated_points_draw(o, draws[o.no + 1].angle,
                                           draws[o.no + 1].distance), draws)
    ELSE o.points

\* create_obfuscated_points(point, radius_feet, no_samp)
create_obfuscated_points(point, radius_feet, no_samp, draws) ==
    create_obfuscated_points_loop(
        create_obfuscated_points_begin(point, radius_feet, no_samp), draws)

\* output rows that keep the position of the row they come from
center_rows_of_source(row, center) ==
    [j \in DOMAIN center |->
        [plot_ID |-> row.plot_ID, lat |-> row.geometry.y, lon |-> row.geometry.x]]

\* lines 229-230: for pt in center: centers.append({"plot_ID": ..., "lat":
\* pt.y, "lon": pt.x})
center_rows(row, center) ==
    [j \in DOMAIN center |->
        [plot_ID |-> row.plot_ID, lat |-> center[j].y, lon |-> center[j].x]]

\* pd.DataFrame(centers).to_csv(): the columns are the keys of the rows, after
\* a column without a name that numbers the rows from 0
to_csv(centers) ==
    [header |-> <<"">> \o (IF centers = << >> THEN << >> ELSE <<"plot_ID", "lat", "lon">>),
     records |-> [i \in DOMAIN centers |-> [index |-> i - 1, row |-> centers[i]]]]

PtsIdle == [pc |-> "idle", input |-> [kind |-> "none", crs |-> 0],
            radius_feet |-> 0, no_samp |-> 0, rows |-> << >>, gdf |-> << >>,
            done |-> 0, draws |-> << >>, centers |-> << >>,
            point_csv |-> to_csv(<< >>), wrote |-> FALSE]

\* lines 205-222: the GeoDataFrame in WGS84 and the empty list
PtsStart ==
    /\ NoCallRunning
    /\ \E input \in BatchInputs, rows \in BatchTables,
          radius_feet \in RadiusInputs, no_samp \in SampleInputs :
          pts' = [PtsIdle EXCEPT !.pc = "loop", !.input = input,
                                 !.radius_feet = radius_feet, !.no_samp = no_samp,
                                 !.rows = rows, !.gdf = to_gdf(input, rows)]
    /\ UNCHANGED <<obf, circ, load, ext, cat, tbl, batch, val, fs, imap>>

\* lines 224-230: one iteration of `for idx, row in gdf.iterrows()`
PtsRow ==
    /\ pts.pc = "loop"
    /\ pts.done < Len(pts.gdf)
    /\ LET row == pts.gdf[pts.done + 1]
       IN  \E draws \in PointDraws(pts.radius_feet) :
              pts' = [pts EXCEPT
                 !.done = pts.done + 1,
                 !.draws = Append(pts.draws, draws),
                 !.centers = pts.centers \o
                     center_rows(row, create_obfuscated_points(row.geometry,
                                                               pts.radius_feet,
                                                               pts.no_samp, draws))]
    /\ UNCHANGED <<obf, circ, load, ext, cat, tbl, batch, val, fs, imap>>

\* lines 232-238: the table of the rows, written as CSV and returned
PtsWrite ==
    /\ pts.pc = "loop"
    /\ pts.done = Len(pts.gdf)
    /\ pts' = [pts EXCEPT !.pc = "done", !.point_csv = to_csv(pts.centers),
                          !.wrote = TRUE]
    /\ UNCHANGED <<obf, circ, load, ext, cat, tbl, batch, val, fs, imap>>

NextPts == PtsStart \/ PtsRow \/ PtsWrite

(***************************************************************************)
(* The output file of an extraction: point_extraction.py lines 144-151,    *)
(* buffer_method.py lines 145-153.                                         *)
(***************************************************************************)
\* A dataset id is a string; the ids of the model are the name parts "a"
\* joined by up to MaxSeparators separators, each "/" or "_": "a", "a/a",
\* "a_a", "a/a_a", "a_a/a", ...
dataset_id(separators) ==
    [i \in 1 .. (2 * Len(separators) + 1) |->
        IF i % 2 = 1 THEN "a" ELSE separators[i \div 2]]

FileIds ==
    { dataset_id(separators) :
        separators \in UNION { [1 .. n -> {"/", "_"}] : n \in 0 .. MaxSeparators } }

\* file_name = name.replace("/", "_")
file_name(name) == [i \in DOMAIN name |-> IF name[i] = "/" THEN "_" ELSE name[i]]

\* out_path = os.path.join(expanduser("~"), "Downloads", f"{file_name}.csv")
out_path(geedata) == <<"~", "Downloads", file_name(geedata) \o <<".", "c", "s", "v">>>>

OutPaths == {out_path(id) : id \in FileIds}

NoFile == << >>

\* the Downloads folder: the dataset each file was last written for, the
\* dataset of the last extraction, and whether that extraction replaced the
\* file of an extraction of another dataset
FsIdle == [files |-> [path \in OutPaths |-> NoFile], geedata |-> NoFile,
           replaced |-> NoFile]

\* gm.extract_values_to_points(fc, geeimage, out_path) writes out_path,
\* replacing the file that is there
FsExtract ==
    /\ NoCallRunning
    /\ \E geedata \in FileIds :
          fs' = [files |-> [fs.files EXCEPT ![out_path(geedata)] = geedata],
                 geedata |-> geedata,
                 replaced |-> fs.files[out_path(geedata)]]
    /\ UNCHANGED <<obf, circ, load, ext, cat, tbl, batch, val, pts, imap>>

NextFs == FsExtract

(***************************************************************************)
(* interactive.py: Map.add_geojson and the shapefile dropdown of           *)
(* Map.change_built_in_shapefiles.                                         *)
(***************************************************************************)
\* the Map has no attribute current_geojson_layer before the first
\* add_geojson call that reaches line 114
NoAttribute == [id |-> 0, name |-> "none"]

\* SHAPEFILE_LOOKUP, lines 428-432: "None" has no path
SHAPEFILE_LOOKUP ==
    [name \in {"None", "U.S. States", "National Forests"} |->
        IF name = "None" THEN None
        ELSE IF name = "U.S. States" THEN "../data/us-states.json"
        ELSE "https://geohub.oregon.gov/api/download/v1/items/b479e4bd7d70439a87e0230c99bddce5/geojson?layers=0"]

\* ipyleaflet's Map.remove_layer: a layer that is not on the map raises
\* LayerException, which lines 106-109 and 467-470 catch and drop
remove_layer(layers, layer) == layers \ {layer}

\* lines 102-109, 463-470: the current layer is taken off the map
remove_current(m) ==
    IF m.current_geojson_layer # NoAttribute
    THEN [m EXCEPT !.layers = remove_layer(m.layers, m.current_geojson_layer)]
    ELSE m

\* add_geojson(data, name=name), lines 91-115: kind is the type of data and
\* read is what gpd.read_file(data) does when data is a path
add_geojson(m, kind, read, name) ==
    IF kind = "str" /\ read # "ok"
    THEN [m EXCEPT !.error = read]
    ELSE IF kind \notin {"str", "dict"}
         THEN [remove_current(m) EXCEPT !.error = "UnboundLocalError"]
         ELSE LET layer == [id |-> m.created + 1, name |-> name]
              IN  [remove_current(m) EXCEPT
                            !.created = m.created + 1,
                            !.current_geojson_layer = layer,
                            !.layers = remove_current(m).layers \cup {layer},
                            !.error = "none"]

\* on_dropdown_change(change), lines 455-470
on_dropdown_change(m, new, read) ==
    IF SHAPEFILE_LOOKUP[new] # None
    THEN add_geojson(m, "str", read, new)
    ELSE [remove_current(m) EXCEPT !.error = "none"]

MapIdle == [layers |-> {}, current_geojson_layer |-> NoAttribute,
            dropdown |-> "None", created |-> 0, ops |-> 0, error |-> "none"]

\* a call of add_geojson from add_shp, add_gdf, add_vector or the user, with
\* a path, a dict or a value of another type
AddGeojson ==
    /\ NoCallRunning
    /\ imap.ops < MaxMapOps
    /\ \E kind \in {"str", "dict", "FeatureCollection"}, read \in {"ok", "DriverError"} :
          /\ kind # "str" => read = "ok"
          /\ imap' = [add_geojson(imap, kind, read, "layer") EXCEPT !.ops = imap.ops + 1]
    /\ UNCHANGED <<obf, circ, load, ext, cat, tbl, batch, val, pts, fs>>

\* the user selects another entry of the shapefile dropdown; the observer is
\* called when the value changes
ShapefileDropdownChange ==
    /\ NoCallRunning
    /\ imap.ops < MaxMapOps
    /\ \E new \in DOMAIN SHAPEFILE_LOOKUP, read \in {"ok", "DriverError"} :
          /\ new # imap.dropdown
          /\ SHAPEFILE_LOOKUP[new] = None => read = "ok"
          /\ imap' = [on_dropdown_change(imap, new, read) EXCEPT
                         !.dropdown = new, !.ops = imap.ops + 1]
    /\ UNCHANGED <<obf, circ, load, ext, cat, tbl, batch, val, pts, fs>>

NextMap == AddGeojson \/ ShapefileDropdownChange

InitObf == obf = ObfIdle
InitCirc == circ = CircIdle
InitLoad == load = LoadIdle
InitExt == ext = ExtIdle
InitCat == cat = CatIdle
InitTbl == tbl = TblIdle
InitBatch == batch = BatchIdle

InitVal == val = ValIdle
InitPts == pts = PtsIdle
InitFs == fs = FsIdle
InitMap == imap = MapIdle

Init ==
    /\ InitObf /\ InitCirc /\ InitLoad /\ InitExt /\ InitCat /\ InitTbl /\ InitBatch
    /\ InitVal /\ InitPts /\ InitFs /\ InitMap

NextObf == ObfStart \/ ObfDraw \/ ObfReturn

Next ==
    \/ NextObf \/ NextCirc \/ NextLoad \/ NextExt \/ NextCat \/ NextTbl \/ NextBatch
    \/ NextVal \/ NextPts \/ NextFs \/ NextMap

Spec == Init /\ [][Next]_vars

\* the calls of one class at a time
SpecObf == Init /\ [][NextObf]_vars

(***************************************************************************)
(* Claims about create_obfuscated_points.                                  *)
(***************************************************************************)
\* C1: for every draw made with radius_feet > 0, the projected original point
\* lies within radius_feet * 0.3048 m of the returned center, measured in the
\* projected frame, and the returned center differs from the original point
\* whenever the drawn distance is not zero.
C1_OriginalWithinRadius ==
    obf.radius_feet > 0 =>
        \A i \in 1 .. Len(obf.points) :
            /\ dist2(obf.xy, transformer_to_utm(obf.utm, obf.points[i]))
                   <= (obf.radius_feet * 11049) * (obf.radius_feet * 11049)
            /\ obf.draws[i].distance # 0 => obf.points[i] # obf.point

\* a finished call with radius_feet > 0 that drew the largest distance below
\* the radius and a smaller distance above 0
C1_Witness ==
    /\ obf.pc = "done" /\ obf.radius_feet > 0
    /\ \E i, j \in 1 .. Len(obf.points) :
          /\ obf.draws[i].distance = obf.radius_feet * 11049 - 29
          /\ obf.draws[j].distance > 0
          /\ obf.draws[j].distance < obf.draws[i].distance
          /\ obf.points[i] # obf.point

\* C2: a call with radius_feet > 0 and sample_count >= 1 returns a list of
\* exactly sample_count coordinates.
C2_ReturnsSampleCount ==
    (obf.pc = "done" /\ obf.radius_feet > 0 /\ obf.no_samp >= 1) =>
        (obf.result = "returned" /\ Len(obf.points) = obf.no_samp)

\* a finished call that returned more than one coordinate from a point whose
\* zone has one digit
C2_Witness ==
    /\ obf.pc = "done" /\ obf.radius_feet > 0 /\ obf.no_samp = MaxSamples
    /\ Len(obf.points) = MaxSamples
    /\ obf.utm < 32600

\* C4: a call with radius_feet <= 0 or sample_count <= 0 fails with an
\* InvalidParameter error and returns no coordinates.
C4_InvalidParameterRaised ==
    (obf.pc = "done" /\ (obf.radius_feet <= 0 \/ obf.no_samp <= 0)) =>
        (obf.result = "raised" /\ obf.points = << >>)

SpecCirc == Init /\ [][NextCirc]_vars

(***************************************************************************)
(* Claims about create_obfuscated_circle.                                  *)
(***************************************************************************)
\* C5: for every point and every radius > 0 the returned polygon contains the
\* point, in the point-centered and in the randomized-center variant.
C5_CircleContainsPoint ==
    (circ.pc = "done" /\ circ.radius_feet > 0) =>
        contains(circ.circle_latlon, circ.point)

SpecLoad == Init /\ [][NextLoad]_vars

(***************************************************************************)
(* Claims about load_gee_as_image.                                         *)
(***************************************************************************)
ProbeOrder == <<"Image", "ImageCollection", "FeatureCollection">>

\* C7: the probing loader tries Image, ImageCollection, FeatureCollection in
\* that order; a loader is tried only after every earlier one failed; the
\* first that succeeds gives the result and ends the call; a ValueError is
\* raised exactly when all three failed.
C7_ProbesInOrder ==
    load.variant = "probing" =>
        /\ Len(load.tried) <= 3
        /\ \A i \in 1 .. Len(load.tried) : load.tried[i] = ProbeOrder[i]
        /\ Len(load.failed) <= Len(load.tried)
        /\ \A i \in 1 .. Len(load.failed) : load.failed[i] = load.tried[i]
        /\ Len(load.failed) < Len(load.tried) =>
              /\ Len(load.failed) = Len(load.tried) - 1
              /\ load.pc = "done"
              /\ load.error = "none"
              /\ load.result.kind = "Image"
              /\ load.result.id = load.dataset_id
              /\ load.result.reducer =
                    (CASE load.tried[Len(load.tried)] = "Image" -> "none"
                       [] load.tried[Len(load.tried)] = "ImageCollection" -> "median"
                       [] OTHER -> "constant")
        /\ load.pc = "done" =>
              (load.error = "ValueError" <=> load.failed = ProbeOrder)
        /\ load.error = "ValueError" => load.result = NoImage

\* the Image and the ImageCollection loader failed and the FeatureCollection
\* loader returned
C7_Witness ==
    /\ load.variant = "probing" /\ load.pc = "done"
    /\ load.failed = <<"Image", "ImageCollection">>
    /\ load.tried = ProbeOrder
    /\ load.result.reducer = "constant"

\* how often the name fn is in the call log
CallCount(fn) == Cardinality({i \in 1 .. Len(load.calls) : load.calls[i] = fn})

\* C8: when the catalog declares the type image, the Image loader is called
\* exactly once with the dataset id, no collection loader is called, and the
\* call returns that image (unless the service raises in getInfo()), whatever
\* the dates are.
C8_DeclaredImage ==
    (load.variant = "declared" /\ load.pc = "done" /\ load.data_type = "image") =>
        /\ CallCount("ee.Image") = 1
        /\ load.calls[1] = "ee.Image"
        /\ CallCount("ee.ImageCollection") = 0
        /\ CallCount("ee.FeatureCollection") = 0
        /\ CallCount("filterDate") = 0
        /\ load.error \in {"none", "RemoteError"}
        /\ load.error = "none" => load.result = ee_Image(load.dataset_id)

\* a declared image loaded with both dates given
C8_Witness ==
    /\ load.variant = "declared" /\ load.pc = "done" /\ load.data_type = "image"
    /\ load.arg_start = "2024-01-01" /\ load.arg_end = "2024-12-31"
    /\ load.result = ee_Image("test/image")

\* C9: when the catalog declares the type image_collection, the
\* ImageCollection loader is called exactly once, the date filter is applied
\* if and only if both dates are given, and the median is returned.
C9_DeclaredCollection ==
    (load.variant = "declared" /\ load.pc = "done"
        /\ load.data_type = "image_collection") =>
        /\ CallCount("ee.ImageCollection") = 1
        /\ CallCount("filterDate") = 1 <=> (load.arg_start # None /\ load.arg_end # None)
        /\ (load.arg_start = None /\ load.arg_end = None) => load.result.filter = << >>
        /\ load.result.kind = "Image" /\ load.result.reducer = "median"

\* whether the finished call loaded its dataset as an image collection
LoadedAsCollection ==
    \/ load.variant = "declared" /\ load.data_type = "image_collection"
    \/ load.variant = "probing" /\ load.tried = <<"Image", "ImageCollection">>
          /\ load.failed = <<"Image">>

\* C10: loading an image collection with exactly one of the two dates given
\* fails with InvalidParameter and returns no image.
C10_OneSidedDatesRejected ==
    (load.pc = "done" /\ LoadedAsCollection
        /\ ((load.arg_start = None) # (load.arg_end = None))) =>
        (load.error = "InvalidParameter" /\ load.result = NoImage)

\* C11: loading a declared image collection with start_date later than
\* end_date fails with InvalidParameter, and no remote call (collection load,
\* date filter, median) is made.
C11_ReversedDatesRejected ==
    (load.variant = "declared" /\ load.pc = "done"
        /\ load.data_type = "image_collection"
        /\ load.arg_start # None /\ load.arg_end # None
        /\ strptime[load.arg_start] > strptime[load.arg_end]) =>
        (load.error = "InvalidParameter" /\ load.calls = << >>)

C13_FeatureCollectionRasterized ==
    (load.variant = "declared" /\ load.pc = "done"
        /\ load.data_type = "feature_collection") =>
        /\ load.error = "none"
        /\ load.result = reduceToImage(ee_FeatureCollection(load.dataset_id))

SpecExt == Init /\ [][NextExt]_vars

SpecCat == Init /\ [][NextCat]_vars

(***************************************************************************)
(* Claims about the catalog requests.                                      *)
(***************************************************************************)
\* the requests for the catalog that were answered, and those that failed
CatalogFetched ==
    {i \in 1 .. Len(cat.http) :
        cat.http[i].url = catalog_url /\ cat.http[i].outcome = "ok"}

CatalogFailed ==
    {i \in 1 .. Len(cat.http) :
        cat.http[i].url = catalog_url /\ cat.http[i].outcome # "ok"}

\* C14: over any sequence of catalog lookups of one process (widget
\* construction, dropdown changes, type resolution) no request for the catalog
\* is made after the first one that succeeded.
C14_CatalogFetchedOnce ==
    \A i \in CatalogFetched :
        \A j \in (i + 1) .. Len(cat.http) : cat.http[j].url # catalog_url

\* C15: after a catalog fetch failed, the failure is reported once, no later
\* lookup requests the catalog again, a lookup finds nothing, and no exception
\* reaches the caller of a widget constructor or of a dropdown-change handler.
C15_FailureDegradesOnce ==
    CatalogFailed # {} =>
        /\ Cardinality(CatalogFailed) = 1
        /\ \A i \in CatalogFailed :
              \A j \in (i + 1) .. Len(cat.http) : cat.http[j].url # catalog_url
        /\ cat.last.op \in {"init", "on_dropdown_change"} =>
              (cat.last.reached_caller = "none" /\ cat.last.url = None)

\* C16: a call of fetch_geojson(url) makes exactly one GET of url; answered,
\* it returns the parsed body and prints nothing; failed in any way (HTTP
\* status, connection, parse, any other exception), it returns None, prints
\* exactly one message and raises nothing.
C16_FetchGeojsonOnce ==
    cat.last.op = "fetch_geojson" =>
        /\ cat.last.gets = 1
        /\ cat.http[Len(cat.http)] = [url |-> cat.last.url, outcome |-> cat.last.outcome]
        /\ cat.last.outcome = "ok" =>
              (cat.last.data = Parsed(served(cat.last.url)) /\ cat.last.printed = << >>)
        /\ cat.last.outcome # "ok" =>
              (cat.last.data = NoData /\ Len(cat.last.printed) = 1)
        /\ cat.last.raised = "none"

\* a direct call whose request was answered, then one whose answer did not
\* parse and one that timed out
C16_Witness ==
    /\ cat.last.op = "fetch_geojson" /\ cat.last.outcome = "Timeout"
    /\ cat.last.data = NoData /\ cat.last.printed = <<"An error occurred">>
    /\ Len(cat.http) = 3
    /\ cat.http[1].outcome = "ok" /\ cat.http[2].outcome = "JSONDecodeError"
    /\ cat.http[1].url = cat.http[3].url

SpecTbl == Init /\ [][NextTbl]_vars

(***************************************************************************)
(* Claims about the column resolution.                                     *)
(***************************************************************************)
\* whether an alias of the list is the name of a column as it is written,
\* and whether one is when upper and lower case are taken as one
MatchesExactly(possible_names) ==
    \E i \in DOMAIN possible_names : possible_names[i] \in Range(tbl.columns)

MatchesFolded(possible_names) ==
    \E i \in DOMAIN possible_names :
        \E c \in Range(tbl.columns) : lower(c) = lower(possible_names[i])

\* the column c is the one the first matching alias of the list names
Resolved(possible_names, c) ==
    /\ c \in Range(tbl.columns)
    /\ MatchesExactly(possible_names) =>
          \E i \in DOMAIN possible_names :
              /\ possible_names[i] = c
              /\ \A j \in 1 .. (i - 1) : possible_names[j] \notin Range(tbl.columns)
    /\ ~MatchesExactly(possible_names) =>
          \E i \in DOMAIN possible_names :
              /\ lower(possible_names[i]) = lower(c)
              /\ \A j \in 1 .. (i - 1) :
                    \A d \in Range(tbl.columns) : lower(d) # lower(possible_names[j])

\* C17: find_column gives the column the first alias in list order names,
\* case-insensitively when no alias is a column name as written, and raises
\* ValueError when no alias matches; the latitude, longitude and identifier
\* columns are renamed to LAT, LON and plot_ID before a geometry is built:
\* [Latitude, Longitude, plot_id] becomes [LAT, LON, plot_ID].
C17_ColumnsNormalized ==
    /\ tbl.pc \in {"found", "renamed", "called"} =>
          /\ Resolved(lat_cols, tbl.lat_col)
          /\ Resolved(lon_cols, tbl.lon_col)
          /\ Resolved(id_cols, tbl.id_col)
    /\ (tbl.uploaded /\ tbl.pc # "read") =>
          (tbl.pc = "raised" <=>
              ~(MatchesFolded(lat_cols) /\ MatchesFolded(lon_cols)
                  /\ MatchesFolded(id_cols)))
    /\ (tbl.uploaded /\ tbl.pc = "raised") => tbl.error = "ValueError"
    /\ tbl.pc \in {"renamed", "called"} =>
          /\ Len(tbl.renamed) = Len(tbl.columns)
          /\ \A i \in DOMAIN tbl.columns :
                tbl.renamed[i] =
                    (CASE tbl.columns[i] = tbl.lat_col -> "LAT"
                       [] tbl.columns[i] = tbl.lon_col -> "LON"
                       [] tbl.columns[i] = tbl.id_col -> "plot_ID"
                       [] OTHER -> tbl.columns[i])
          /\ tbl.columns = <<"Latitude", "Longitude", "plot_id">> =>
                tbl.renamed = <<"LAT", "LON", "plot_ID">>
    /\ tbl.geometry_built =>
          (tbl.pc = "called" /\ {"LAT", "LON", "plot_ID"} \subseteq Range(tbl.renamed))

\* a table whose three columns match an alias only when case is ignored,
\* renamed and handed to get_coordinate_data
C17_Witness ==
    /\ tbl.pc = "called" /\ tbl.geometry_built
    /\ tbl.columns = <<"Plot_ID", "LONGITUDE", "LATITUDE">>
    /\ tbl.renamed = <<"plot_ID", "LON", "LAT">>

SpecBatch == Init /\ [][NextBatch]_vars

(***************************************************************************)
(* Claims about obfuscate_points_to_circles.                               *)
(***************************************************************************)
\* whether two points of one projected frame are at most |r| apart: along
\* each axis first, then as the crow flies
Within(a, b, r) ==
    LET dx == IF a.x >= b.x THEN a.x - b.x ELSE b.x - a.x
        dy == IF a.y >= b.y THEN a.y - b.y ELSE b.y - a.y
        reach == IF r >= 0 THEN r ELSE 0 - r
    IN  /\ dx <= reach /\ dy <= reach
        /\ dx * dx + dy * dy <= reach * reach

\* C18: the output has exactly one circle polygon per input row, in input
\* order, each with the identifier of the row it was built from, in WGS84:
\* the circle of feature i has the radius asked for and, in geographic
\* coordinates, its center on row i's position (point-centered variant) or
\* within the radius of it (randomized variant).
C18_OneCirclePerRow ==
    batch.pc = "done" =>
        /\ batch.wrote
        /\ batch.output.crs = 4326
        /\ Len(batch.output.features) = Len(batch.rows)
        /\ \A i \in DOMAIN batch.rows :
              LET feature == batch.output.features[i]
                  row == batch.rows[i]
                  frame == utm_crs(row.point)
                  r == radius_m(batch.radius_feet)
              IN  /\ feature.plot_ID = row.plot_ID
                  /\ feature.geometry.radius = r
                  /\ feature.geometry.quad_segs = 32
                  /\ batch.variant = "centered" => feature.geometry.center = row.point
                  /\ Within(transformer_to_utm(frame, feature.geometry.center),
                            transformer_to_utm(frame, row.point), r)

\* two rows with one identifier and two positions, given in a projected
\* frame, each with a circle whose center was drawn away from the row
C18_Witness ==
    /\ batch.pc = "done" /\ batch.variant = "randomized"
    /\ batch.input = [kind |-> "GeoDataFrame", crs |-> 32610]
    /\ batch.radius_feet = MaxRadiusFeet
    /\ Len(batch.rows) = 2
    /\ batch.rows[1].plot_ID = batch.rows[2].plot_ID
    /\ batch.rows[1].point # batch.rows[2].point
    /\ \A i \in 1 .. 2 :
          /\ batch.output.features[i].plot_ID = "A"
          /\ batch.output.features[i].geometry.center # batch.rows[i].point

\* the names of the functions called so far, in call order
CallNames == [i \in DOMAIN ext.calls |-> ext.calls[i].fn]

\* C19: when loading the image fails, get_coordinate_data /
\* extract_median_values raises to its caller, the sampling operation is never
\* called and no output file is written: no call leaves a part of the rows.
C19_LoadFailureIsAtomic ==
    (ext.error # "none") =>
        /\ ext.pc = "done"
        /\ CallNames[Len(CallNames)] = "load_gee_as_image"
        /\ \A i \in DOMAIN CallNames : CallNames[i] # "gm.extract_values_to_points"
        /\ ext.rows = << >> /\ ext.returned = << >>
        /\ ~ext.wrote

\* an area extraction over several polygons whose dataset no loader accepts
C19_Witness ==
    /\ ext.pc = "done" /\ ext.mode = "area" /\ ext.n = MaxGeometries
    /\ ext.error = "ValueError"
    /\ ext.image = NoImage

\* the calls of get_coordinate_data on a path or a DataFrame, in order
ExpectedCalls ==
    (IF ext.input = "path" THEN <<"pd.read_csv">> ELSE << >>)
        \o <<"gpd.GeoDataFrame", "gm.geojson_to_ee", "load_gee_as_image",
             "gm.extract_values_to_points">>

\* C20: get_coordinate_data on a DataFrame or on a CSV path builds the point
\* geometries (reading the CSV once, from the path given), converts them with
\* geojson_to_ee, calls load_gee_as_image with the dataset id and the two
\* dates as they were passed, then calls the sampling operation, each once
\* and in this order, and returns what the sampling operation returned.
C20_StepsOnceInOrder ==
    (ext.mode = "point" /\ ext.input \in {"path", "DataFrame"}) =>
        /\ Len(CallNames) <= Len(ExpectedCalls)
        /\ \A i \in DOMAIN CallNames : CallNames[i] = ExpectedCalls[i]
        /\ ext.input = "path" => ext.calls[1].args = <<ext.data>>
        /\ \A i \in DOMAIN ext.calls :
              ext.calls[i].fn = "load_gee_as_image" =>
                  ext.calls[i].args = <<ext.geedata, ext.start_date, ext.end_date>>
        /\ (ext.pc = "done" /\ ext.error = "none") =>
              (CallNames = ExpectedCalls /\ ext.returned = ext.rows)

\* a finished extraction from a CSV path with a start date and no end date
C20_Witness ==
    /\ ext.pc = "done" /\ ext.error = "none"
    /\ ext.mode = "point" /\ ext.input = "path" /\ ext.data = "plots.csv"
    /\ ext.start_date = "2024-01-01" /\ ext.end_date = None
    /\ ext.n = MaxGeometries /\ Len(ext.returned) = MaxGeometries
    /\ Len(ext.calls) = 5

\* the sampling requests a call has made
SamplingRequests ==
    Cardinality({i \in DOMAIN CallNames : CallNames[i] = "gm.extract_values_to_points"})

\* C22 (as the code has it): a finished area-mode extraction whose image was
\* loaded has made exactly one sampling request, whatever the number n of
\* polygons: the polygons are sent as one collection and there is no loop
\* over them on the client side.
C22_OneSamplingRequest ==
    (ext.mode = "area" /\ ext.pc = "done" /\ ext.error = "none") =>
        SamplingRequests = 1

\* C22 (as stated): a finished area-mode extraction over n polygons has made
\* n sampling requests, one per polygon.
C22_RequestPerPolygon ==
    (ext.mode = "area" /\ ext.pc = "done" /\ ext.error = "none") =>
        SamplingRequests = ext.n

\* a finished area-mode extraction over the largest number of polygons
C22_Witness ==
    /\ ext.mode = "area" /\ ext.pc = "done" /\ ext.error = "none"
    /\ ext.n = MaxGeometries /\ ext.wrote
    /\ Len(ext.returned) = MaxGeometries

SpecVal == Init /\ [][NextVal]_vars

(***************************************************************************)
(* Claims about the validators.                                            *)
(***************************************************************************)
\* a date argument that is a date, or a string that names one as YYYY-MM-DD
WellFormed(v) ==
    \/ v.type = "date"
    \/ v.type = "str" /\ strptime_date(v).raised = "none"

\* C21: validate_date_range returns no error exactly when both dates are
\* absent, or both are present and well-formed with start <= end; it returns
\* exactly one error when one date is absent, when a string is malformed, or
\* when start > end.
C21_DateRangeErrors ==
    val.fn = "validate_date_range" =>
        LET start == val.start_date
            end == val.end_date
            valid == \/ start = PyNone /\ end = PyNone
                     \/ /\ start # PyNone /\ end # PyNone
                        /\ WellFormed(start) /\ WellFormed(end)
                        /\ ~date_gt(to_date(start).value, to_date(end).value)
        IN  /\ val.errors = << >> <=> valid
            /\ ~valid => Len(val.errors) = 1

\* start and end are the same day, one as a string and one as a date; the
\* range is accepted
C21_Witness ==
    /\ val.fn = "validate_date_range"
    /\ val.start_date = datestr("-", <<2024, 12, 31>>)
    /\ val.end_date = date(2024, 12, 31)
    /\ val.errors = << >>

\* C25: validate_buffer_radius returns no error for every numeric radius > 0
\* and at least one for every radius <= 0; validate_sample_count returns no
\* error for every integer count >= 1 and at least one for every count <= 0;
\* a radius that is no number, or a count that is no integer, gives exactly
\* one error.
C25_RadiusAndCountErrors ==
    /\ val.fn = "validate_buffer_radius" =>
          IF is_number(val.number)
          THEN val.errors = << >> <=> val.number.tenths > 0
          ELSE Len(val.errors) = 1
    /\ val.fn = "validate_sample_count" =>
          IF is_int(val.number)
          THEN val.errors = << >> <=> val.number.tenths >= 10
          ELSE Len(val.errors) = 1

\* C26: validate_coordinates returns no error exactly when both coordinate
\* columns exist, neither has a missing value, every latitude is in [-90, 90]
\* and every longitude in [-180, 180]; when a coordinate column is absent it
\* returns one error, which names that column, and checks nothing else.
C26_CoordinateErrors ==
    val.fn = "validate_coordinates" =>
        LET df == val.df
            rows == {df.rows[i] : i \in DOMAIN df.rows}
        IN  /\ val.errors = << >> <=>
                  /\ {"LAT", "LON"} \subseteq df.columns
                  /\ \A row \in rows :
                        /\ ~row.LAT.na /\ ~row.LON.na
                        /\ row.LAT.v >= 0 - 90 /\ row.LAT.v <= 90
                        /\ row.LON.v >= 0 - 180 /\ row.LON.v <= 180
            /\ "LAT" \notin df.columns =>
                  val.errors = <<"Latitude column 'LAT' not found in data">>
            /\ ("LAT" \in df.columns /\ "LON" \notin df.columns) =>
                  val.errors = <<"Longitude column 'LON' not found in data">>

\* a table with both columns whose rows lie on the four end points
C26_Witness ==
    /\ val.fn = "validate_coordinates"
    /\ val.df.columns = {"LAT", "LON"}
    /\ val.df.rows = <<[LAT |-> Cell(0 - 90), LON |-> Cell(180)],
                       [LAT |-> Cell(90), LON |-> Cell(0 - 180)]>>
    /\ val.errors = << >>

SpecPts == Init /\ [][NextPts]_vars

\* the number of points create_obfuscated_points returns for a sample count
PointsPerRow == IF pts.no_samp > 0 THEN pts.no_samp ELSE 0

\* C23: obfuscate_points over n input points with sample count k outputs
\* n x k rows (none when k is not positive); the rows of an input point are
\* contiguous and in the order of the input, each has the plot id of the point
\* it was derived from, and each holds the fields plot_ID, lat and lon only,
\* lat and lon being those of the obfuscated point of its draw and not a copy
\* of the columns of the input.
C23_RowsPerPoint ==
    pts.pc = "done" =>
        LET k == PointsPerRow
            n == Len(pts.rows)
            out == pts.point_csv.records
        IN  /\ Len(out) = n * k
            /\ pts.point_csv.header \in {<<"">>, <<"", "plot_ID", "lat", "lon">>}
            /\ \A i \in 1 .. n : \A j \in 1 .. k :
                  LET r == out[(i - 1) * k + j].row
                      source == pts.gdf[i].geometry
                      draw == pts.draws[i][j]
                      utm == utm_crs(source)
                      center == transformer_to_latlon(utm,
                                    offset_center(transformer_to_utm(utm, source),
                                                  draw.angle, draw.distance))
                  IN  /\ DOMAIN r = {"plot_ID", "lat", "lon"}
                      /\ r.plot_ID = pts.rows[i].plot_ID
                      /\ r.lat = center.y /\ r.lon = center.x

\* two points with different plot ids, two samples of each, drawn away from
\* the points
C23_Witness ==
    /\ pts.pc = "done" /\ pts.wrote
    /\ Len(pts.rows) = MaxRows /\ pts.no_samp = MaxSamples
    /\ pts.radius_feet = MaxRadiusFeet
    /\ pts.rows[1].plot_ID # pts.rows[2].plot_ID
    /\ Len(pts.point_csv.records) = MaxRows * MaxSamples
    /\ \A i \in DOMAIN pts.centers :
          \A j \in DOMAIN pts.gdf :
             <<pts.centers[i].lon, pts.centers[i].lat>>
                 # <<pts.gdf[j].geometry.x, pts.gdf[j].geometry.y>>

(***************************************************************************)
(* Claims about the projected frame.                                       *)
(***************************************************************************)
\* the EPSG codes of the UTM zones of the northern hemisphere
NorthernUTM == 32601 .. 32660

\* C24: the projected frame chosen for a point depends only on its
\* longitude: at every latitude, southern ones included, the frame is the one
\* chosen for that longitude, and it is a UTM frame of the northern
\* hemisphere (EPSG 326xx).
C24_NorthernFrameAtEveryLatitude ==
    obf.pc # "idle" =>
        /\ \A lat \in {Deg(0 - 90), Deg(0 - 17), Deg(0), Deg(44), Deg(90)} :
              utm_crs(Point(obf.point.x, lat)) = obf.utm
        /\ obf.utm \in NorthernUTM

\* C27: for every longitude in [-180, 180] the frame chosen by the circle
\* builders is the UTM zone floor((lon + 180) / 6) + 1, a number from 1 to 60,
\* under the five-digit EPSG code 32600 + zone.
C27_FiveDigitZoneCode ==
    circ.pc = "done" =>
        LET zone == ((circ.point.x + Deg(180)) \div Deg(6)) + 1
        IN  /\ circ.point.x >= Deg(0 - 180) /\ circ.point.x <= Deg(180)
            /\ zone >= 1 /\ zone <= 60
            /\ circ.circle_latlon.frame = 32600 + zone

\* the columns of the renamed table that have the name
ColumnsNamed(name) == {i \in DOMAIN tbl.renamed : tbl.renamed[i] = name}

\* C28: the three columns find_column selects are three different columns,
\* and the renamed table has exactly one column named LAT, one named LON and
\* one named plot_ID, also when the uploaded table has both a "lat" and a
\* "LAT" column.
C28_OneColumnPerName ==
    tbl.pc \in {"renamed", "called"} =>
        /\ tbl.lat_col # tbl.lon_col /\ tbl.lat_col # tbl.id_col
        /\ tbl.lon_col # tbl.id_col
        /\ Cardinality(ColumnsNamed("LAT")) = 1
        /\ Cardinality(ColumnsNamed("LON")) = 1
        /\ Cardinality(ColumnsNamed("plot_ID")) = 1

SpecMap == Init /\ [][NextMap]_vars

\* C29: current_geojson_layer, when it is set, is a layer that is on the map,
\* and at most one layer added by add_geojson is on the map at a time.
C29_CurrentLayerIsOnMap ==
    /\ imap.current_geojson_layer # NoAttribute =>
          imap.current_geojson_layer \in imap.layers
    /\ Cardinality(imap.layers) <= 1

SpecFs == Init /\ [][NextFs]_vars

\* C30: the mapping from a dataset id to its output path is injective: the
\* file of an extraction is never replaced by the extraction of another
\* dataset, and every file in the folder is the file of one dataset id only.
C30_PathsOfDatasetsDiffer ==
    /\ fs.replaced \in {NoFile, fs.geedata}
    /\ \A path \in OutPaths :
          fs.files[path] # NoFile =>
              \A id \in FileIds : out_path(id) = path => id = fs.files[path]

====
